---- MODULE Spec2Model ----
(***************************************************************************)
(* Model of the weather ETL of src/src/etl_weather.py (class ETLWeather):  *)
(* extraer (CSV, JSON, API -> three frames), transformar (combine, clean,  *)
(* validate, normalise) and cargar (per-record upsert into ubicaciones,    *)
(* mediciones_climaticas and condiciones_climaticas).                      *)
(*                                                                         *)
(* A DataFrame is a sequence of rows; a row is a TLA+ record carrying the  *)
(* 34 canonical columns and source_type.  A missing number (pandas NaN) is *)
(* the integer NaN, on which every comparison is false; a missing string   *)
(* is the character sequence NullStr.  Strings that the code edits         *)
(* (city_name, country_code) are sequences of one-character strings.       *)
(* Temperatures, percentages and the like are integers: a value such as    *)
(* 61 stands for any reading above the limit 60.                           *)
(*                                                                         *)
(* The three stages are checked under three specifications (SpecExtraer,   *)
(* SpecTransformar, SpecCargar) over one set of variables; a stage's Init  *)
(* fixes the variables of the other stages.                                *)
(***************************************************************************)
EXTENDS Integers, Sequences, FiniteSets, TLC

VARIABLES
    pc,            \* position in the running method
    csv_file,      \* input: the CSV file, [readable, rows]
    json_file,     \* input: the JSON file, [readable, docs]
    df_csv,        \* self.df_csv
    df_json,       \* self.df_json
    df_api,        \* self.df_api
    df_combined,   \* self.df_combined
    i,             \* loop position (JSON item, city, or batch row), 1-based
    records,       \* extraer: the JSON loop's  records  list
    api_records,   \* extraer: the API loop's  api_records  list
    responses,     \* history: what the API answered, one entry per queried city
    rechazos,      \* transformar: the printed counts [nulos, temp, hum, wind]
    is_none,       \* self.df_combined is None
    conn_open,     \* cargar: psycopg2.connect succeeded in this run
    tx,            \* store as the open transaction sees it
    db,            \* committed store
    id_ubicacion,  \* cargar local
    id_medicion,   \* cargar local
    registros_insertados,
    registros_duplicados,
    errores,
    run,           \* how many times cargar has been started on df_combined
    rec_begin,     \* history: the committed store when the current row started
    tally,         \* history: per row of this run, how many counters it raised
    clean,         \* history: no statement or commit has failed in this run
    prev           \* history: [done, clean, counts] of the previous finished run

vars == <<pc, csv_file, json_file, df_csv, df_json, df_api, df_combined, i,
          records, api_records, responses, rechazos, is_none, conn_open, tx, db,
          id_ubicacion, id_medicion,
          registros_insertados, registros_duplicados, errores, run, rec_begin,
          tally, clean, prev>>

extraerVars == <<csv_file, json_file, df_csv, df_json, df_api, records,
                 api_records, responses>>

cargarVars == <<conn_open, tx, db, id_ubicacion, id_medicion, registros_insertados, registros_duplicados,
                errores, run, rec_begin, tally, clean, prev>>

-----------------------------------------------------------------------------
(* Bounds of the model. *)

MaxJsonDocs == 2
MaxRows == 2
MaxBatch == 2
MaxRuns == 2

-----------------------------------------------------------------------------
(* Values. *)

\* pandas NaN for a numeric column: outside every range the code tests.
NaN == 0 - 1000000

\* a missing string (read_csv parses the text NaN as missing)
NullStr == <<"NaN">>

IsNum(x) == x # NaN

\* Comparisons as pandas evaluates them: false as soon as one side is NaN.
Lt(a, b) == IsNum(a) /\ IsNum(b) /\ a < b
Gt(a, b) == IsNum(a) /\ IsNum(b) /\ a > b
Ge(a, b) == IsNum(a) /\ IsNum(b) /\ a >= b
Le(a, b) == IsNum(a) /\ IsNum(b) /\ a <= b

SeqsUpTo(S, n) == UNION {[1..k -> S] : k \in 0..n}

\* one row with column col set (added when the row lacks it)
SetField(row, col, value) ==
    [f \in DOMAIN row \cup {col} |-> IF f = col THEN value ELSE row[f]]

\* DataFrame[col] = value, for every row
SetColumn(df, col, value) == [k \in 1..Len(df) |-> SetField(df[k], col, value)]

\* datetime.fromtimestamp(t).strftime('%Y-%m-%d %H:%M:%S'): day and second of day
FmtDateTime(t) == <<t \div 86400, t % 86400>>

\* datetime.fromtimestamp(t).strftime('%H:%M:%S'): second of day
FmtTime(t) == <<t % 86400>>

-----------------------------------------------------------------------------
(* The canonical row. *)

\* the literal 'México' of lines 85, 158 and 455
PaisDefault == "Mexico"

BaseRow ==
    [city_name |-> <<"M", "e", "r", "i", "d", "a">>,
     country_code |-> <<"M", "X">>,
     country_name |-> "Mexico",
     state_province |-> "Yucatan",
     latitude |-> 2097,
     longitude |-> -8962,
     altitude_meters |-> 10,
     timezone |-> "America/Merida",
     population |-> 892363,
     measurement_datetime |-> <<19723, 43200>>,
     temperature_celsius |-> 28,
     feels_like_celsius |-> 30,
     temp_min_celsius |-> 24,
     temp_max_celsius |-> 33,
     humidity_percent |-> 70,
     pressure_hpa |-> 1013,
     sea_level_pressure_hpa |-> 1014,
     ground_level_pressure_hpa |-> 1010,
     wind_speed_mps |-> 4,
     wind_gust_mps |-> 7,
     wind_direction_degrees |-> 90,
     cloudiness_percent |-> 40,
     visibility_meters |-> 9000,
     precipitation_mm |-> 1,
     snow_mm |-> 0,
     uv_index |-> 8,
     condition_main |-> "Clouds",
     condition_description |-> "few clouds",
     condition_icon_code |-> "02d",
     sunrise_time |-> <<23000>>,
     sunset_time |-> <<67000>>,
     moon_phase |-> 3,
     air_quality_index |-> 2,
     weather_alert |-> 0]

Puebla == <<"P", "u", "e", "b", "l", "a">>

\* a second observation: another city, place and time
PueblaRow ==
    [BaseRow EXCEPT !.city_name = Puebla, !.state_province = "Puebla",
                    !.latitude = 1904, !.longitude = -9820,
                    !.timezone = "America/Mexico_City",
                    !.measurement_datetime = <<19723, 46800>>,
                    !.temperature_celsius = 19]

-----------------------------------------------------------------------------
(* extraer: the JSON source (lines 73-127). *)

\* canonical column -> the nested path line 82-117 reads it from
JsonPathOf ==
    [city_name |-> "location.city",
     country_code |-> "location.country",
     latitude |-> "location.coordinates.lat",
     longitude |-> "location.coordinates.lon",
     altitude_meters |-> "location.altitude",
     timezone |-> "location.timezone",
     population |-> "location.population",
     measurement_datetime |-> "timestamp",
     temperature_celsius |-> "weather.temperature.current",
     feels_like_celsius |-> "weather.temperature.feels_like",
     temp_min_celsius |-> "weather.temperature.min",
     temp_max_celsius |-> "weather.temperature.max",
     humidity_percent |-> "weather.atmospheric.humidity",
     pressure_hpa |-> "weather.atmospheric.pressure",
     sea_level_pressure_hpa |-> "weather.atmospheric.sea_level",
     ground_level_pressure_hpa |-> "weather.atmospheric.pressure",
     wind_speed_mps |-> "weather.wind.speed",
     wind_gust_mps |-> "weather.wind.gust",
     wind_direction_degrees |-> "weather.wind.direction",
     cloudiness_percent |-> "weather.clouds",
     visibility_meters |-> "weather.atmospheric.visibility",
     precipitation_mm |-> "weather.precipitation.rain",
     snow_mm |-> "weather.precipitation.snow",
     uv_index |-> "weather.uv_index",
     condition_main |-> "conditions.main",
     condition_description |-> "conditions.description",
     condition_icon_code |-> "conditions.icon",
     sunrise_time |-> "astronomy.sunrise",
     sunset_time |-> "astronomy.sunset",
     moon_phase |-> "astronomy.moon_phase",
     air_quality_index |-> "air_quality",
     weather_alert |-> "alert"]

\* every path the mapping subscripts: one absent path raises KeyError
JsonPaths == {JsonPathOf[c] : c \in DOMAIN JsonPathOf}

HasJsonPaths(item) == JsonPaths \subseteq DOMAIN item

\* the  record = {...}  of lines 82-117
MapJson(item) ==
    [c \in DOMAIN JsonPathOf \cup {"country_name", "state_province"} |->
        IF c = "country_name" THEN PaisDefault
        ELSE IF c = "state_province" THEN ""
        ELSE item[JsonPathOf[c]]]

-----------------------------------------------------------------------------
(* extraer: the API source (lines 129-203). *)

\* the list  ciudades  of lines 133-139
Ciudades ==
    << [name |-> <<"M", "e", "x", "i", "c", "o", " ", "C", "i", "t", "y">>,
        country |-> <<"M", "X">>],
       [name |-> <<"G", "u", "a", "d", "a", "l", "a", "j", "a", "r", "a">>,
        country |-> <<"M", "X">>],
       [name |-> <<"M", "o", "n", "t", "e", "r", "r", "e", "y">>,
        country |-> <<"M", "X">>],
       [name |-> Puebla, country |-> <<"M", "X">>],
       [name |-> <<"C", "a", "n", "c", "u", "n">>, country |-> <<"M", "X">>] >>

\* paths of the response body that lines 156-186 subscript (KeyError when absent)
ApiRequired ==
    {"name", "sys.country", "coord.lat", "coord.lon", "dt", "main.temp",
     "main.feels_like", "main.temp_min", "main.temp_max", "main.humidity",
     "main.pressure", "wind.speed", "clouds.all", "weather.0.main",
     "weather.0.description", "weather.0.icon", "sys.sunrise", "sys.sunset"}

\* paths read with .get(path, default)
ApiOptional ==
    {"timezone", "main.sea_level", "main.grnd_level", "wind.gust", "wind.deg",
     "visibility", "rain.1h", "snow.1h"}

HasApiPaths(data) == ApiRequired \subseteq DOMAIN data

\* mutant: .get(path) without its default, None for an absent path
GetSinDefault(data, path, default) == IF path \in DOMAIN data THEN data[path] ELSE NaN

\* dict.get(path, default)
Get(data, path, default) == IF path \in DOMAIN data THEN data[path] ELSE default

\* the  record = {...}  of lines 155-190
MapApi(data) ==
    [city_name |-> data["name"],
     country_code |-> data["sys.country"],
     country_name |-> PaisDefault,
     state_province |-> "",
     latitude |-> data["coord.lat"],
     longitude |-> data["coord.lon"],
     altitude_meters |-> 0,
     timezone |-> Get(data, "timezone", ""),
     population |-> 0,
     measurement_datetime |-> FmtDateTime(data["dt"]),
     temperature_celsius |-> data["main.temp"],
     feels_like_celsius |-> data["main.feels_like"],
     temp_min_celsius |-> data["main.temp_min"],
     temp_max_celsius |-> data["main.temp_max"],
     humidity_percent |-> data["main.humidity"],
     pressure_hpa |-> data["main.pressure"],
     sea_level_pressure_hpa |-> Get(data, "main.sea_level", data["main.pressure"]),
     ground_level_pressure_hpa |-> Get(data, "main.grnd_level", data["main.pressure"]),
     wind_speed_mps |-> data["wind.speed"],
     wind_gust_mps |-> Get(data, "wind.gust", data["wind.speed"]),
     wind_direction_degrees |-> Get(data, "wind.deg", 0),
     cloudiness_percent |-> data["clouds.all"],
     visibility_meters |-> Get(data, "visibility", 10000),
     precipitation_mm |-> Get(data, "rain.1h", 0),
     snow_mm |-> Get(data, "snow.1h", 0),
     uv_index |-> 0,
     condition_main |-> data["weather.0.main"],
     condition_description |-> data["weather.0.description"],
     condition_icon_code |-> data["weather.0.icon"],
     sunrise_time |-> FmtTime(data["sys.sunrise"]),
     sunset_time |-> FmtTime(data["sys.sunset"]),
     moon_phase |-> 0,
     air_quality_index |-> 1,
     weather_alert |-> 0]

-----------------------------------------------------------------------------
(* Inputs of extraer. *)

\* the JSON document that describes the observation of a canonical row
DocOf(row) ==
    [p \in JsonPaths |->
        row[CHOOSE c \in DOMAIN JsonPathOf \ {"ground_level_pressure_hpa"} :
                JsonPathOf[c] = p]]

\* a document or response body without some of its paths
DropPaths(doc, ps) == [p \in DOMAIN doc \ ps |-> doc[p]]

\* documents a JSON file may hold: two complete ones, and one that lacks a
\* nested value
JsonDocs ==
    {DocOf(BaseRow), DocOf(PueblaRow),
     DropPaths(DocOf(BaseRow), {"location.coordinates.lat"})}

JsonFiles ==
    {[readable |-> FALSE, docs |-> <<>>]}
    \cup {[readable |-> TRUE, docs |-> d] : d \in SeqsUpTo(JsonDocs, MaxJsonDocs)}

\* CSV files: unreadable, header only, and two rows
CsvFiles ==
    {[readable |-> FALSE, rows |-> <<>>],
     [readable |-> TRUE, rows |-> <<>>],
     [readable |-> TRUE, rows |-> <<BaseRow, PueblaRow>>]}

\* the body the service sends for the k-th city, with every optional field
ApiBodyFull(k) ==
    [p \in ApiRequired \cup ApiOptional |->
        CASE p = "name" -> Ciudades[k].name
          [] p = "sys.country" -> Ciudades[k].country
          [] p = "coord.lat" -> 1900 + k
          [] p = "coord.lon" -> k - 9900
          [] p = "timezone" -> "-21600"
          [] p = "dt" -> 1704110400 + 60 * k
          [] p = "main.temp" -> 20 + k
          [] p = "main.feels_like" -> 19 + k
          [] p = "main.temp_min" -> 15 + k
          [] p = "main.temp_max" -> 25 + k
          [] p = "main.humidity" -> 50 + k
          [] p = "main.pressure" -> 1010 + k
          [] p = "main.sea_level" -> 1012 + k
          [] p = "main.grnd_level" -> 780 + k
          [] p = "wind.speed" -> 3
          [] p = "wind.gust" -> 6
          [] p = "wind.deg" -> 180
          [] p = "clouds.all" -> 75
          [] p = "visibility" -> 8000
          [] p = "rain.1h" -> 2
          [] p = "snow.1h" -> 1
          [] p = "weather.0.main" -> "Clouds"
          [] p = "weather.0.description" -> "nubes dispersas"
          [] p = "weather.0.icon" -> "03d"
          [] p = "sys.sunrise" -> 1704114000
          [] p = "sys.sunset" -> 1704153600]

\* bodies with status 200 that carry every required field
ApiBodiesOk(k) == {ApiBodyFull(k), DropPaths(ApiBodyFull(k), ApiOptional)}

\* bodies with status 200 that lack a required field
ApiBodiesBroken(k) ==
    {DropPaths(ApiBodyFull(k), {"main.temp"}),
     DropPaths(ApiBodyFull(k), {"weather.0.main", "weather.0.description",
                                "weather.0.icon"})}

\* non-success statuses the service answers
ErrorStatuses == {404, 500}

-----------------------------------------------------------------------------
(* The store and the counters, as they are before cargar runs. *)

EmptyStore == [ubicaciones |-> {}, mediciones |-> {}, condiciones |-> {}]

NoRun == [done |-> FALSE, clean |-> FALSE, counts |-> <<0, 0, 0>>]

CargarIdle ==
    /\ conn_open = FALSE
    /\ tx = EmptyStore
    /\ db = EmptyStore
    /\ id_ubicacion = 0
    /\ id_medicion = 0
    /\ registros_insertados = 0
    /\ registros_duplicados = 0
    /\ errores = 0
    /\ run = 0
    /\ rec_begin = EmptyStore
    /\ tally = <<>>
    /\ clean = TRUE
    /\ prev = NoRun

NoRechazos == [nulos |-> 0, temp |-> 0, hum |-> 0, wind |-> 0]

-----------------------------------------------------------------------------
(* extraer (lines 49-214), one action per step of the method. *)

InitExtraer ==
    /\ pc = "csv"
    /\ csv_file \in CsvFiles
    /\ json_file \in JsonFiles
    /\ df_csv = <<>>
    /\ df_json = <<>>
    /\ df_api = <<>>
    /\ df_combined = <<>>
    /\ is_none = TRUE
    /\ i = 1
    /\ records = <<>>
    /\ api_records = <<>>
    /\ responses = <<>>
    /\ rechazos = NoRechazos
    /\ CargarIdle

\* lines 62-68: read_csv succeeds
CsvRead ==
    /\ pc = "csv"
    /\ csv_file.readable
    /\ df_csv' = SetColumn(csv_file.rows, "source_type", "CSV")
    /\ pc' = "json"
    /\ UNCHANGED <<csv_file, json_file, df_json, df_api, df_combined, i, records,
                   api_records, responses, rechazos, is_none, cargarVars>>

\* mutant: the failure of read_csv escapes and ends extraer
CsvFailsEscapes ==
    /\ pc = "csv"
    /\ ~csv_file.readable
    /\ df_csv' = <<>>
    /\ pc' = "extraido"
    /\ UNCHANGED <<csv_file, json_file, df_json, df_api, df_combined, i, records,
                   api_records, responses, rechazos, is_none, cargarVars>>

\* lines 69-71: read_csv raises
CsvFails ==
    /\ pc = "csv"
    /\ ~csv_file.readable
    /\ df_csv' = <<>>
    /\ pc' = "json"
    /\ UNCHANGED <<csv_file, json_file, df_json, df_api, df_combined, i, records,
                   api_records, responses, rechazos, is_none, cargarVars>>

\* lines 76-80: the file is read and parsed
JsonOpen ==
    /\ pc = "json"
    /\ json_file.readable
    /\ records' = <<>>
    /\ i' = 1
    /\ pc' = "json_loop"
    /\ UNCHANGED <<csv_file, json_file, df_csv, df_json, df_api, df_combined,
                   api_records, responses, rechazos, is_none, cargarVars>>

\* what the handler of lines 125-127 leaves
JsonHandler == <<>>

\* lines 76-77 raise: handler of lines 125-127
JsonOpenFails ==
    /\ pc = "json"
    /\ ~json_file.readable
    /\ df_json' = JsonHandler
    /\ pc' = "api"
    /\ UNCHANGED <<csv_file, json_file, df_csv, df_api, df_combined, i, records,
                   api_records, responses, rechazos, is_none, cargarVars>>

\* lines 81-118: one item mapped and appended
JsonItem ==
    /\ pc = "json_loop"
    /\ i <= Len(json_file.docs)
    /\ HasJsonPaths(json_file.docs[i])
    /\ records' = Append(records, MapJson(json_file.docs[i]))
    /\ i' = i + 1
    /\ UNCHANGED <<pc, csv_file, json_file, df_csv, df_json, df_api, df_combined,
                   api_records, responses, rechazos, is_none, cargarVars>>

\* lines 82-117 raise KeyError: the try of line 75 encloses the loop, so the
\* handler of lines 125-127 ends the JSON source
JsonItemKeyError ==
    /\ pc = "json_loop"
    /\ i <= Len(json_file.docs)
    /\ ~HasJsonPaths(json_file.docs[i])
    /\ df_json' = JsonHandler
    /\ pc' = "api"
    /\ UNCHANGED <<csv_file, json_file, df_csv, df_api, df_combined, i, records,
                   api_records, responses, rechazos, is_none, cargarVars>>

\* lines 120-124: the loop is over
JsonFinish ==
    /\ pc = "json_loop"
    /\ i > Len(json_file.docs)
    /\ df_json' = SetColumn(records, "source_type", "JSON")
    /\ pc' = "api"
    /\ UNCHANGED <<csv_file, json_file, df_csv, df_api, df_combined, i, records,
                   api_records, responses, rechazos, is_none, cargarVars>>

\* lines 131-141
ApiStart ==
    /\ pc = "api"
    /\ api_records' = <<>>
    /\ i' = 1
    /\ pc' = "api_loop"
    /\ UNCHANGED <<csv_file, json_file, df_csv, df_json, df_api, df_combined,
                   records, responses, rechazos, is_none, cargarVars>>

\* what the handler of lines 201-203 leaves
ApiHandler == <<>>

\* lines 142-192: status 200 and a body with every required field
ApiRequestOk ==
    /\ pc = "api_loop"
    /\ i <= Len(Ciudades)
    /\ \E data \in ApiBodiesOk(i) :
          /\ api_records' = Append(api_records, MapApi(data))
          /\ responses' = Append(responses,
                                 [status |-> 200, complete |-> TRUE,
                                  optional |-> DOMAIN data \cap ApiOptional])
    /\ i' = i + 1
    /\ UNCHANGED <<pc, csv_file, json_file, df_csv, df_json, df_api, df_combined,
                   records, rechazos, is_none, cargarVars>>

\* lines 152-190 raise KeyError on a 200 body: handler of lines 201-203
ApiRequestKeyError ==
    /\ pc = "api_loop"
    /\ i <= Len(Ciudades)
    /\ \E data \in ApiBodiesBroken(i) : ~HasApiPaths(data)
    /\ responses' = Append(responses, [status |-> 200, complete |-> FALSE,
                                      optional |-> {}])
    /\ df_api' = ApiHandler
    /\ pc' = "extraido"
    /\ UNCHANGED <<csv_file, json_file, df_csv, df_json, df_combined, i, records,
                   api_records, rechazos, is_none, cargarVars>>

\* mutant: a status other than 200 is raised (as raise_for_status would), which
\* the handler of lines 201-203 catches
ApiRequestStatusRaises ==
    /\ pc = "api_loop"
    /\ i <= Len(Ciudades)
    /\ \E status \in ErrorStatuses :
          responses' = Append(responses, [status |-> status, complete |-> FALSE,
                                            optional |-> {}])
    /\ df_api' = ApiHandler
    /\ pc' = "extraido"
    /\ UNCHANGED <<csv_file, json_file, df_csv, df_json, df_combined, i, records,
                   api_records, rechazos, is_none, cargarVars>>

\* lines 193-194: a status other than 200 is printed, the loop goes on
ApiRequestStatus ==
    /\ pc = "api_loop"
    /\ i <= Len(Ciudades)
    /\ \E status \in ErrorStatuses :
          responses' = Append(responses, [status |-> status, complete |-> FALSE,
                                            optional |-> {}])
    /\ i' = i + 1
    /\ UNCHANGED <<pc, csv_file, json_file, df_csv, df_json, df_api, df_combined,
                   records, api_records, rechazos, is_none, cargarVars>>

\* line 150 raises (no answer): handler of lines 201-203
ApiRequestRaises ==
    /\ pc = "api_loop"
    /\ i <= Len(Ciudades)
    /\ responses' = Append(responses, [status |-> 0, complete |-> FALSE,
                                      optional |-> {}])
    /\ df_api' = ApiHandler
    /\ pc' = "extraido"
    /\ UNCHANGED <<csv_file, json_file, df_csv, df_json, df_combined, i, records,
                   api_records, rechazos, is_none, cargarVars>>

\* lines 196-200: the loop is over
ApiFinish ==
    /\ pc = "api_loop"
    /\ i > Len(Ciudades)
    /\ df_api' = SetColumn(api_records, "source_type", "API")
    /\ pc' = "extraido"
    /\ UNCHANGED <<csv_file, json_file, df_csv, df_json, df_combined, i, records,
                   api_records, responses, rechazos, is_none, cargarVars>>

NextExtraer ==
    \/ CsvRead
    \/ CsvFails
    \/ JsonOpen
    \/ JsonOpenFails
    \/ JsonItem
    \/ JsonItemKeyError
    \/ JsonFinish
    \/ ApiStart
    \/ ApiRequestOk
    \/ ApiRequestKeyError
    \/ ApiRequestStatus
    \/ ApiRequestRaises
    \/ ApiFinish

SpecExtraer == InitExtraer /\ [][NextExtraer]_vars

-----------------------------------------------------------------------------
(* transformar (lines 220-409): string helpers. *)

Lowers == <<"a", "b", "c", "d", "e", "f", "g", "h", "i", "j", "k", "l", "m",
            "n", "o", "p", "q", "r", "s", "t", "u", "v", "w", "x", "y", "z">>

Uppers == <<"A", "B", "C", "D", "E", "F", "G", "H", "I", "J", "K", "L", "M",
            "N", "O", "P", "Q", "R", "S", "T", "U", "V", "W", "X", "Y", "Z">>

Whitespace == {" ", "\t"}

IsLower(c) == \E k \in 1..Len(Lowers) : Lowers[k] = c
IsUpper(c) == \E k \in 1..Len(Uppers) : Uppers[k] = c
\* U+0130, the capital I with a dot above, and U+0307, the combining dot above:
\* str.lower() turns the first into "i" followed by the second, which has no case
IConPunto == "U+0130"
PuntoCombinante == "U+0307"

IsCased(c) == IsLower(c) \/ IsUpper(c) \/ c = IConPunto

ToUpper(c) == IF IsLower(c) THEN Uppers[CHOOSE k \in 1..Len(Lowers) : Lowers[k] = c] ELSE c
ToLower(c) == IF IsUpper(c) THEN Lowers[CHOOSE k \in 1..Len(Uppers) : Uppers[k] = c] ELSE c

\* the lower case of one character, as the characters it becomes
LowerFull(c) == IF c = IConPunto THEN <<"i", PuntoCombinante>> ELSE <<ToLower(c)>>

RECURSIVE LStrip(_)
LStrip(s) == IF s # <<>> /\ Head(s) \in Whitespace THEN LStrip(Tail(s)) ELSE s

RECURSIVE RStrip(_)
RStrip(s) ==
    IF s # <<>> /\ s[Len(s)] \in Whitespace THEN RStrip(SubSeq(s, 1, Len(s) - 1)) ELSE s

\* str.strip()
Strip(s) == RStrip(LStrip(s))

\* str.title(): a cased character is upper after an uncased one, lower after a
\* cased one
RECURSIVE TitleFrom(_, _)
TitleFrom(s, prev_cased) ==
    IF s = <<>> THEN <<>>
    ELSE (IF prev_cased THEN LowerFull(Head(s)) ELSE <<ToUpper(Head(s))>>)
         \o TitleFrom(Tail(s), IsCased(Head(s)))

Title(s) == TitleFrom(s, FALSE)

\* str.upper()
Upper(s) == [k \in 1..Len(s) |-> ToUpper(s[k])]

\* line 309: .str.strip().str.title(); a missing value stays missing
NormalizarCiudad(s) == IF s = NullStr THEN NullStr ELSE Title(Strip(s))

\* line 310: .str.upper(); a missing value stays missing
NormalizarPais(s) == IF s = NullStr THEN NullStr ELSE Upper(s)

\* the dictionary of lines 317-385 (accents dropped)
traduccion_condiciones ==
    {
     <<"Clear", "Despejado">>,
     <<"Clouds", "Nublado">>,
     <<"Rain", "Lluvia">>,
     <<"Drizzle", "Llovizna">>,
     <<"Thunderstorm", "Tormenta">>,
     <<"Snow", "Nieve">>,
     <<"Mist", "Neblina">>,
     <<"Smoke", "Humo">>,
     <<"Haze", "Bruma">>,
     <<"Dust", "Polvo">>,
     <<"Fog", "Niebla">>,
     <<"Sand", "Arena">>,
     <<"Ash", "Ceniza">>,
     <<"Squall", "Turbonada">>,
     <<"Tornado", "Tornado">>,
     <<"clear sky", "cielo despejado">>,
     <<"few clouds", "pocas nubes">>,
     <<"scattered clouds", "nubes dispersas">>,
     <<"broken clouds", "nubes fragmentadas">>,
     <<"overcast clouds", "muy nublado">>,
     <<"light rain", "lluvia ligera">>,
     <<"moderate rain", "lluvia moderada">>,
     <<"heavy rain", "lluvia intensa">>,
     <<"very heavy rain", "lluvia muy intensa">>,
     <<"extreme rain", "lluvia extrema">>,
     <<"freezing rain", "lluvia helada">>,
     <<"light intensity drizzle", "llovizna ligera">>,
     <<"drizzle", "llovizna">>,
     <<"heavy intensity drizzle", "llovizna intensa">>,
     <<"light intensity shower rain", "chubasco ligero">>,
     <<"shower rain", "chubasco">>,
     <<"heavy intensity shower rain", "chubasco intenso">>,
     <<"ragged shower rain", "chubasco irregular">>,
     <<"thunderstorm with light rain", "tormenta con lluvia ligera">>,
     <<"thunderstorm with rain", "tormenta con lluvia">>,
     <<"thunderstorm with heavy rain", "tormenta con lluvia intensa">>,
     <<"light thunderstorm", "tormenta ligera">>,
     <<"thunderstorm", "tormenta">>,
     <<"heavy thunderstorm", "tormenta intensa">>,
     <<"ragged thunderstorm", "tormenta irregular">>,
     <<"thunderstorm with light drizzle", "tormenta con llovizna ligera">>,
     <<"thunderstorm with drizzle", "tormenta con llovizna">>,
     <<"thunderstorm with heavy drizzle", "tormenta con llovizna intensa">>,
     <<"light snow", "nieve ligera">>,
     <<"snow", "nieve">>,
     <<"heavy snow", "nieve intensa">>,
     <<"sleet", "aguanieve">>,
     <<"light shower sleet", "aguanieve ligera">>,
     <<"shower sleet", "aguanieve">>,
     <<"light rain and snow", "lluvia y nieve ligera">>,
     <<"rain and snow", "lluvia y nieve">>,
     <<"light shower snow", "chubasco de nieve ligero">>,
     <<"shower snow", "chubasco de nieve">>,
     <<"heavy shower snow", "chubasco de nieve intenso">>,
     <<"mist", "neblina">>,
     <<"smoke", "humo">>,
     <<"haze", "bruma">>,
     <<"sand/dust whirls", "remolinos de arena/polvo">>,
     <<"fog", "niebla">>,
     <<"sand", "arena">>,
     <<"dust", "polvo">>,
     <<"volcanic ash", "ceniza volcanica">>,
     <<"squalls", "turbonadas">>,
     <<"tornado", "tornado">>
    }

\* Series.replace(dict): a value that is a key is replaced, any other is kept
Traducir(v) ==
    IF \E e \in traduccion_condiciones : e[1] = v
    THEN (CHOOSE e \in traduccion_condiciones : e[1] = v)[2]
    ELSE v

\* Series.fillna(value)
FillNa(v, value) == IF v = NaN THEN value ELSE v

-----------------------------------------------------------------------------
(* transformar (lines 220-409), one action per numbered transformation. *)

TempMin == -50
TempMax == 60
HumMin == 0
HumMax == 100
WindMin == 0

\* DATA_VALIDATION of config.py, which etl_weather.py never imports
PressureMin == 900
PressureMax == 1100
VisibilityMin == 0
VisibilityMax == 50000

\* line 263: dropna(subset=['temperature_celsius', 'city_name']) keeps these
SinNulosCriticos(r) == r.temperature_celsius # NaN /\ r.city_name # NullStr

\* lines 272-273: the rows counted as invalid temperatures
TempInvalida(r) ==
    Lt(r.temperature_celsius, TempMin) \/ Gt(r.temperature_celsius, TempMax)

\* mutant: the limits themselves are rejected
TempValidaEstricta(r) ==
    Gt(r.temperature_celsius, TempMin) /\ Lt(r.temperature_celsius, TempMax)

\* lines 276-277: the rows kept
TempValida(r) ==
    Ge(r.temperature_celsius, TempMin) /\ Le(r.temperature_celsius, TempMax)

\* lines 282-283
HumInvalida(r) == Lt(r.humidity_percent, HumMin) \/ Gt(r.humidity_percent, HumMax)

\* lines 286-287
HumValida(r) == Ge(r.humidity_percent, HumMin) /\ Le(r.humidity_percent, HumMax)

\* line 291
VientoInvalido(r) == Lt(r.wind_speed_mps, WindMin)

\* line 292
VientoValido(r) == Ge(r.wind_speed_mps, WindMin)

\* lines 300-304
Rellenar(r) ==
    [r EXCEPT !.precipitation_mm = FillNa(@, 0),
              !.snow_mm = FillNa(@, 0),
              !.uv_index = FillNa(@, 0),
              !.weather_alert = FillNa(@, 0),
              !.air_quality_index = FillNa(@, 1)]

\* lines 309-310
Estandarizar(r) ==
    [r EXCEPT !.city_name = NormalizarCiudad(@),
              !.country_code = NormalizarPais(@)]

\* lines 388-389
TraducirFila(r) ==
    [r EXCEPT !.condition_main = Traducir(@),
              !.condition_description = Traducir(@)]

WithSource(row, src) == SetField(row, "source_type", src)

\* rows an extracted frame may hold: the base observation with one value at, just
\* inside or just outside a limit, or missing; with a city name to normalize; and
\* some with two such values
TransformRows ==
    {[BaseRow EXCEPT !.temperature_celsius = t] : t \in {NaN, -51, -50, 60, 61, 95}}
    \cup {[BaseRow EXCEPT !.humidity_percent = h] : h \in {NaN, -1, 0, 100, 101}}
    \cup {[BaseRow EXCEPT !.wind_speed_mps = w] : w \in {NaN, -1, 0}}
    \cup {[BaseRow EXCEPT !.pressure_hpa = 899],
          [BaseRow EXCEPT !.visibility_meters = 50001],
          [BaseRow EXCEPT !.pressure_hpa = 1101, !.visibility_meters = -1]}
    \cup {[BaseRow EXCEPT !.city_name = c] :
             c \in {NullStr,
                    <<" ", "s", "a", "n", " ", "l", "U", "I", "S", "\t">>,
                    <<"D", IConPunto, "Y", "A", "R", "B", "A", "K", "I", "R">>}}
    \cup {[BaseRow EXCEPT !.temperature_celsius = 61, !.humidity_percent = 101],
          [BaseRow EXCEPT !.humidity_percent = NaN, !.wind_speed_mps = -1],
          [BaseRow EXCEPT !.precipitation_mm = NaN, !.air_quality_index = NaN,
                          !.country_code = <<"m", "x">>,
                          !.condition_main = "Rain",
                          !.condition_description = "light rain"]}

InitTransformar ==
    /\ pc = "combinar"
    /\ csv_file = [readable |-> TRUE, rows |-> <<>>]
    /\ json_file = [readable |-> TRUE, docs |-> <<>>]
    /\ \E rows \in SeqsUpTo(TransformRows, MaxRows) :
          df_csv = SetColumn(rows, "source_type", "CSV")
    /\ df_json \in {<<>>, <<WithSource(MapJson(DocOf(PueblaRow)), "JSON")>>}
    /\ df_api \in {<<>>, <<WithSource(MapApi(ApiBodyFull(1)), "API")>>}
    /\ df_combined = <<>>
    /\ is_none = TRUE
    /\ i = 1
    /\ records = <<>>
    /\ api_records = <<>>
    /\ responses = <<>>
    /\ rechazos = NoRechazos
    /\ CargarIdle

\* lines 234-247
Combinar ==
    /\ pc = "combinar"
    /\ df_csv # <<>> \/ df_json # <<>> \/ df_api # <<>>
    /\ df_combined' = df_csv \o df_json \o df_api
    /\ is_none' = FALSE
    /\ pc' = "fechas"
    /\ UNCHANGED <<extraerVars, i, rechazos, cargarVars>>

\* lines 242-244: nothing to combine, transformar returns None
CombinarVacio ==
    /\ pc = "combinar"
    /\ df_csv = <<>> /\ df_json = <<>> /\ df_api = <<>>
    /\ pc' = "transformado"
    /\ UNCHANGED <<extraerVars, df_combined, is_none, i, rechazos, cargarVars>>

\* lines 250-258: to_datetime; the model's timestamps are already parsed values
NormalizarFechas ==
    /\ pc = "fechas"
    /\ pc' = "nulos"
    /\ UNCHANGED <<extraerVars, df_combined, is_none, i, rechazos, cargarVars>>

\* lines 261-265
LimpiarNulos ==
    /\ pc = "nulos"
    /\ df_combined' = SelectSeq(df_combined, SinNulosCriticos)
    /\ rechazos' = [rechazos EXCEPT !.nulos = Len(df_combined) - Len(df_combined')]
    /\ pc' = "temperatura"
    /\ UNCHANGED <<extraerVars, is_none, i, cargarVars>>

\* mutant: a temperature outside the range is moved to the nearest limit
ValidarTemperaturaRecorta ==
    /\ pc = "temperatura"
    /\ rechazos' = [rechazos EXCEPT !.temp = Len(SelectSeq(df_combined, TempInvalida))]
    /\ df_combined' =
          [k \in 1..Len(df_combined) |->
              [df_combined[k] EXCEPT !.temperature_celsius =
                  IF Gt(@, TempMax) THEN TempMax
                  ELSE IF Lt(@, TempMin) THEN TempMin ELSE @]]
    /\ pc' = "humedad"
    /\ UNCHANGED <<extraerVars, is_none, i, cargarVars>>

\* lines 270-278
ValidarTemperatura ==
    /\ pc = "temperatura"
    /\ rechazos' = [rechazos EXCEPT !.temp = Len(SelectSeq(df_combined, TempInvalida))]
    /\ df_combined' = SelectSeq(df_combined, TempValida)
    /\ pc' = "humedad"
    /\ UNCHANGED <<extraerVars, is_none, i, cargarVars>>

\* lines 280-288
ValidarHumedad ==
    /\ pc = "humedad"
    /\ rechazos' = [rechazos EXCEPT !.hum = Len(SelectSeq(df_combined, HumInvalida))]
    /\ df_combined' = SelectSeq(df_combined, HumValida)
    /\ pc' = "viento"
    /\ UNCHANGED <<extraerVars, is_none, i, cargarVars>>

\* lines 290-292
ValidarViento ==
    /\ pc = "viento"
    /\ rechazos' = [rechazos EXCEPT !.wind = Len(SelectSeq(df_combined, VientoInvalido))]
    /\ df_combined' = SelectSeq(df_combined, VientoValido)
    /\ pc' = "rellenar"
    /\ UNCHANGED <<extraerVars, is_none, i, cargarVars>>

\* lines 298-305
RellenarOpcionales ==
    /\ pc = "rellenar"
    /\ df_combined' = [k \in 1..Len(df_combined) |-> Rellenar(df_combined[k])]
    /\ pc' = "nombres"
    /\ UNCHANGED <<extraerVars, is_none, i, rechazos, cargarVars>>

\* lines 307-311
EstandarizarNombres ==
    /\ pc = "nombres"
    /\ df_combined' = [k \in 1..Len(df_combined) |-> Estandarizar(df_combined[k])]
    /\ pc' = "traducir"
    /\ UNCHANGED <<extraerVars, is_none, i, rechazos, cargarVars>>

\* lines 313-409
TraducirCondiciones ==
    /\ pc = "traducir"
    /\ df_combined' = [k \in 1..Len(df_combined) |-> TraducirFila(df_combined[k])]
    /\ pc' = "transformado"
    /\ UNCHANGED <<extraerVars, is_none, i, rechazos, cargarVars>>

NextTransformar ==
    \/ Combinar
    \/ CombinarVacio
    \/ NormalizarFechas
    \/ LimpiarNulos
    \/ ValidarTemperatura
    \/ ValidarHumedad
    \/ ValidarViento
    \/ RellenarOpcionales
    \/ EstandarizarNombres
    \/ TraducirCondiciones

SpecTransformar == InitTransformar /\ [][NextTransformar]_vars

-----------------------------------------------------------------------------
(* cargar (lines 415-554): the statements. *)

\* the conflict target of line 451
ClaveUbicacion(u) == <<u.nombre_ciudad, u.codigo_pais, u.latitud, u.longitud>>

\* the conflict target of line 488
ClaveMedicion(m) == <<m.id_ubicacion, m.fecha_hora_medicion, m.tipo_fuente>>

\* the row that the INSERT of lines 445-459 offers
FilaUbicacion(row, id) ==
    [id_ubicacion |-> id,
     nombre_ciudad |-> row.city_name,
     codigo_pais |-> row.country_code,
     nombre_pais |-> Get(row, "country_name", PaisDefault),
     estado_provincia |-> Get(row, "state_province", ""),
     latitud |-> row.latitude,
     longitud |-> row.longitude,
     altitud_metros |-> Get(row, "altitude_meters", 0),
     zona_horaria |-> Get(row, "timezone", ""),
     poblacion |-> Get(row, "population", 0)]

\* the row that the INSERT of lines 475-503 offers
FilaMedicion(row, id, idu) ==
    [id_medicion |-> id,
     id_ubicacion |-> idu,
     fecha_hora_medicion |-> row.measurement_datetime,
     temperatura_celsius |-> row.temperature_celsius,
     sensacion_termica_celsius |-> Get(row, "feels_like_celsius", NaN),
     temperatura_minima_celsius |-> Get(row, "temp_min_celsius", NaN),
     temperatura_maxima_celsius |-> Get(row, "temp_max_celsius", NaN),
     humedad_porcentaje |-> row.humidity_percent,
     presion_hpa |-> row.pressure_hpa,
     presion_nivel_mar_hpa |-> Get(row, "sea_level_pressure_hpa", NaN),
     presion_nivel_suelo_hpa |-> Get(row, "ground_level_pressure_hpa", NaN),
     velocidad_viento_mps |-> row.wind_speed_mps,
     rafaga_viento_mps |-> Get(row, "wind_gust_mps", NaN),
     direccion_viento_grados |-> Get(row, "wind_direction_degrees", 0),
     nubosidad_porcentaje |-> Get(row, "cloudiness_percent", 0),
     visibilidad_metros |-> Get(row, "visibility_meters", 10000),
     precipitacion_mm |-> Get(row, "precipitation_mm", 0),
     nieve_mm |-> Get(row, "snow_mm", 0),
     indice_uv |-> Get(row, "uv_index", 0),
     tipo_fuente |-> row.source_type,
     puntuacion_calidad_datos |-> 3]

\* the row that the INSERT of lines 510-524 offers
FilaCondicion(row, idm) ==
    [id_medicion |-> idm,
     condicion_principal |-> Get(row, "condition_main", "Desconocido"),
     descripcion_condicion |-> Get(row, "condition_description", ""),
     codigo_icono_condicion |-> Get(row, "condition_icon_code", ""),
     hora_amanecer |-> Get(row, "sunrise_time", <<>>),
     hora_atardecer |-> Get(row, "sunset_time", <<>>),
     fase_lunar |-> Get(row, "moon_phase", 0),
     indice_calidad_aire |-> Get(row, "air_quality_index", 1),
     alerta_meteorologica |-> Get(row, "weather_alert", 0)]

\* mutant: the location INSERT without its ON CONFLICT clause
UbicacionesSinConflicto(store, row) == {}

\* ON CONFLICT (nombre_ciudad, codigo_pais, latitud, longitud), line 451: the
\* rows of the store that the offered row conflicts with
UbicacionesEnConflicto(store, row) ==
    {u \in store.ubicaciones : ClaveUbicacion(u) = ClaveUbicacion(FilaUbicacion(row, 0))}

\* mutant: the measurement INSERT without its ON CONFLICT clause
MedicionesSinConflicto(store, row, idu) == {}

\* ON CONFLICT (id_ubicacion, fecha_hora_medicion, tipo_fuente), line 488
MedicionesEnConflicto(store, row, idu) ==
    {m \in store.mediciones : ClaveMedicion(m) = ClaveMedicion(FilaMedicion(row, 0, idu))}

\* ON CONFLICT (id_medicion), line 517
CondicionesEnConflicto(store, idm) ==
    {c \in store.condiciones : c.id_medicion = idm}

\* the SELECT of lines 466-471
SelectUbicacion(store, row) ==
    {u.id_ubicacion : u \in
        {u \in store.ubicaciones :
            /\ u.nombre_ciudad = row.city_name
            /\ u.codigo_pais = row.country_code
            /\ u.latitud = row.latitude
            /\ u.longitud = row.longitude}}

IdsUbicacion(store) == {u.id_ubicacion : u \in store.ubicaciones}

IdsMedicion(store) == {m.id_medicion : m \in store.mediciones}

\* RETURNING id_ubicacion / id_medicion (lines 453, 490): the key the store
\* generates for a new row, one that no row the transaction sees carries
NuevoId(ids) == IF ids = {} THEN 1 ELSE 1 + CHOOSE n \in ids : \A m \in ids : m <= n

Tamanos(store) ==
    <<Cardinality(store.ubicaciones), Cardinality(store.mediciones),
      Cardinality(store.condiciones)>>

-----------------------------------------------------------------------------
(* cargar: the batch and the steps.  A statement or the commit may fail at any *)
(* row (the environment decides); conn.rollback() on the open connection does  *)
(* not fail.                                                                   *)

\* rows as transformar leaves them
Transformada(row, src) == TraducirFila(Estandarizar(Rellenar(WithSource(row, src))))

\* the base observation; the same place at another time; another place; the
\* base observation from another source
LoadRows ==
    {Transformada(BaseRow, "CSV"),
     Transformada([BaseRow EXCEPT !.measurement_datetime = <<19723, 46800>>], "CSV"),
     Transformada(PueblaRow, "CSV"),
     Transformada(BaseRow, "API")}

InitCargar ==
    /\ pc = "cargar"
    /\ csv_file = [readable |-> TRUE, rows |-> <<>>]
    /\ json_file = [readable |-> TRUE, docs |-> <<>>]
    /\ df_csv = <<>>
    /\ df_json = <<>>
    /\ df_api = <<>>
    /\ df_combined \in SeqsUpTo(LoadRows, MaxBatch)
    /\ is_none \in (IF df_combined = <<>> THEN {TRUE, FALSE} ELSE {FALSE})
    /\ i = 1
    /\ records = <<>>
    /\ api_records = <<>>
    /\ responses = <<>>
    /\ rechazos = NoRechazos
    /\ CargarIdle

\* after row i: the next row (line 442), or the end of the loop
Siguiente ==
    /\ i' = i + 1
    /\ pc' = IF i + 1 > Len(df_combined) THEN "cerrar" ELSE "ubicacion"

contadores == <<registros_insertados, registros_duplicados, errores>>

\* lines 426-428
SinDatos ==
    /\ pc = "cargar"
    /\ is_none \/ df_combined = <<>>
    /\ pc' = "sin_datos"
    /\ run' = run + 1
    /\ UNCHANGED <<extraerVars, df_combined, is_none, i, rechazos, conn_open, tx,
                   db, id_ubicacion, id_medicion,
                   contadores, rec_begin, tally, clean, prev>>

\* lines 432-440: the connection opens
Conectar ==
    /\ pc = "cargar"
    /\ ~is_none /\ df_combined # <<>>
    /\ conn_open' = TRUE
    /\ tx' = db
    /\ registros_insertados' = 0
    /\ registros_duplicados' = 0
    /\ errores' = 0
    /\ i' = 1
    /\ pc' = "ubicacion"
    /\ run' = run + 1
    /\ rec_begin' = db
    /\ tally' = [k \in 1..Len(df_combined) |-> 0]
    /\ clean' = TRUE
    /\ UNCHANGED <<extraerVars, df_combined, is_none, rechazos, db,
                   id_ubicacion, id_medicion, prev>>

\* mutant: the failed connection is not noticed and the loop runs
ConectarFallaSigue ==
    /\ pc = "cargar"
    /\ ~is_none /\ df_combined # <<>>
    /\ conn_open' = FALSE
    /\ tx' = db
    /\ registros_insertados' = 0
    /\ registros_duplicados' = 0
    /\ errores' = 0
    /\ i' = 1
    /\ pc' = "ubicacion"
    /\ run' = run + 1
    /\ rec_begin' = db
    /\ tally' = [k \in 1..Len(df_combined) |-> 0]
    /\ clean' = TRUE
    /\ UNCHANGED <<extraerVars, df_combined, is_none, rechazos, db,
                   id_ubicacion, id_medicion, prev>>

\* line 432 raises: handler of lines 553-554
ConectarFalla ==
    /\ pc = "cargar"
    /\ ~is_none /\ df_combined # <<>>
    /\ conn_open' = FALSE
    /\ registros_insertados' = 0
    /\ registros_duplicados' = 0
    /\ errores' = 0
    /\ pc' = "fatal"
    /\ run' = run + 1
    /\ tally' = [k \in 1..Len(df_combined) |-> 0]
    /\ clean' = FALSE
    /\ UNCHANGED <<extraerVars, df_combined, is_none, i, rechazos, tx, db, id_ubicacion, id_medicion,
                   rec_begin, prev>>

\* lines 445-463: no row holds the key, the INSERT returns the new id
InsertarUbicacion ==
    /\ pc = "ubicacion"
    /\ UbicacionesEnConflicto(tx, df_combined[i]) = {}
    /\ tx' = [tx EXCEPT !.ubicaciones =
                 @ \cup {FilaUbicacion(df_combined[i], NuevoId(IdsUbicacion(tx)))}]
    /\ id_ubicacion' = NuevoId(IdsUbicacion(tx))
    /\ pc' = "medicion"
    /\ UNCHANGED <<extraerVars, df_combined, is_none, i, rechazos, conn_open, db, id_medicion, contadores, run, rec_begin, tally,
                   clean, prev>>

\* lines 445-461: a row holds the key, DO NOTHING returns no row
UbicacionExistente ==
    /\ pc = "ubicacion"
    /\ UbicacionesEnConflicto(tx, df_combined[i]) # {}
    /\ pc' = "buscar_ubicacion"
    /\ UNCHANGED <<extraerVars, df_combined, is_none, i, rechazos, conn_open, tx,
                   db, id_ubicacion, id_medicion,
                   contadores, run, rec_begin, tally, clean, prev>>

\* lines 464-472: the id of the existing row is looked up
BuscarUbicacion ==
    /\ pc = "buscar_ubicacion"
    /\ \E id \in SelectUbicacion(tx, df_combined[i]) : id_ubicacion' = id
    /\ pc' = "medicion"
    /\ UNCHANGED <<extraerVars, df_combined, is_none, i, rechazos, conn_open, tx,
                   db, id_medicion, contadores, run,
                   rec_begin, tally, clean, prev>>

\* mutant: the measurement row is committed as soon as it is inserted
InsertarMedicionConCommit ==
    /\ pc = "medicion"
    /\ MedicionesEnConflicto(tx, df_combined[i], id_ubicacion) = {}
    /\ tx' = [tx EXCEPT !.mediciones =
                 @ \cup {FilaMedicion(df_combined[i], NuevoId(IdsMedicion(tx)),
                                      id_ubicacion)}]
    /\ db' = tx'
    /\ id_medicion' = NuevoId(IdsMedicion(tx))
    /\ pc' = "condicion"
    /\ UNCHANGED <<extraerVars, df_combined, is_none, i, rechazos, conn_open,
                   id_ubicacion, contadores, run, rec_begin, tally, clean, prev>>

\* lines 475-507: no row holds the key, the INSERT returns the new id
InsertarMedicion ==
    /\ pc = "medicion"
    /\ MedicionesEnConflicto(tx, df_combined[i], id_ubicacion) = {}
    /\ tx' = [tx EXCEPT !.mediciones =
                 @ \cup {FilaMedicion(df_combined[i], NuevoId(IdsMedicion(tx)),
                                      id_ubicacion)}]
    /\ id_medicion' = NuevoId(IdsMedicion(tx))
    /\ pc' = "condicion"
    /\ UNCHANGED <<extraerVars, df_combined, is_none, i, rechazos, conn_open, db, id_ubicacion, contadores, run, rec_begin, tally,
                   clean, prev>>

\* mutant: the duplicate is counted and the condition insert runs all the same
MedicionDuplicadaConCondicion ==
    /\ pc = "medicion"
    /\ MedicionesEnConflicto(tx, df_combined[i], id_ubicacion) # {}
    /\ registros_duplicados' = registros_duplicados + 1
    /\ tally' = [tally EXCEPT ![i] = @ + 1]
    /\ pc' = "condicion"
    /\ UNCHANGED <<extraerVars, df_combined, is_none, i, rechazos, conn_open, tx,
                   db, id_ubicacion, id_medicion,
                   registros_insertados, errores, run, rec_begin, clean, prev>>

\* lines 475-505, 529-530: a row holds the key, the record is a duplicate
MedicionDuplicada ==
    /\ pc = "medicion"
    /\ MedicionesEnConflicto(tx, df_combined[i], id_ubicacion) # {}
    /\ registros_duplicados' = registros_duplicados + 1
    /\ tally' = [tally EXCEPT ![i] = @ + 1]
    /\ pc' = "commit"
    /\ UNCHANGED <<extraerVars, df_combined, is_none, i, rechazos, conn_open, tx,
                   db, id_ubicacion, id_medicion,
                   registros_insertados, errores, run, rec_begin, clean, prev>>

\* lines 509-528: the condition row, skipped when one holds the measurement id
InsertarCondicion ==
    /\ pc = "condicion"
    /\ tx' = IF CondicionesEnConflicto(tx, id_medicion) = {}
             THEN [tx EXCEPT !.condiciones =
                      @ \cup {FilaCondicion(df_combined[i], id_medicion)}]
             ELSE tx
    /\ registros_insertados' = registros_insertados + 1
    /\ tally' = [tally EXCEPT ![i] = @ + 1]
    /\ pc' = "commit"
    /\ UNCHANGED <<extraerVars, df_combined, is_none, i, rechazos, conn_open, db, id_ubicacion, id_medicion,
                   registros_duplicados, errores, run, rec_begin, clean, prev>>

\* line 532: the commit succeeds
Commit ==
    /\ pc = "commit"
    /\ db' = tx
    /\ rec_begin' = tx
    /\ Siguiente
    /\ UNCHANGED <<extraerVars, df_combined, is_none, rechazos, conn_open, tx, id_ubicacion, id_medicion,
                   contadores, run, tally, clean, prev>>

\* mutant: the handler without conn.rollback()
RegistroConErrorSinRollback ==
    /\ tx' = tx
    /\ errores' = errores + 1
    /\ tally' = [tally EXCEPT ![i] = @ + 1]
    /\ clean' = FALSE
    /\ Siguiente
    /\ UNCHANGED <<extraerVars, df_combined, is_none, rechazos, conn_open, db, id_ubicacion, id_medicion,
                   registros_insertados, registros_duplicados, run, rec_begin,
                   prev>>

\* lines 534-538: the handler of the row's try
RegistroConError ==
    /\ tx' = db
    /\ errores' = errores + 1
    /\ tally' = [tally EXCEPT ![i] = @ + 1]
    /\ clean' = FALSE
    /\ Siguiente
    /\ UNCHANGED <<extraerVars, df_combined, is_none, rechazos, conn_open, db, id_ubicacion, id_medicion,
                   registros_insertados, registros_duplicados, run, rec_begin,
                   prev>>

\* a cursor.execute or fetchone of lines 445-524 raises
FallaSentencia ==
    /\ pc \in {"ubicacion", "buscar_ubicacion", "medicion", "condicion"}
    /\ RegistroConError

\* conn.commit() of line 532 raises: nothing of the row is committed
FallaCommit ==
    /\ pc = "commit"
    /\ RegistroConError

\* lines 540-551
Cerrar ==
    /\ pc = "cerrar"
    /\ conn_open' = FALSE
    /\ pc' = "cargado"
    /\ UNCHANGED <<extraerVars, df_combined, is_none, i, rechazos, tx, db, id_ubicacion, id_medicion,
                   contadores, run, rec_begin, tally, clean, prev>>

\* lines 560-583: the process is run again on the same inputs and store
OtraCarga ==
    /\ pc \in {"cargado", "fatal", "sin_datos"}
    /\ run < MaxRuns
    /\ prev' = [done |-> pc = "cargado", clean |-> pc = "cargado" /\ clean,
                counts |-> Tamanos(db)]
    /\ pc' = "cargar"
    /\ UNCHANGED <<extraerVars, df_combined, is_none, i, rechazos, conn_open, tx,
                   db, id_ubicacion, id_medicion,
                   contadores, run, rec_begin, tally, clean>>

NextCargar ==
    \/ SinDatos
    \/ Conectar
    \/ ConectarFalla
    \/ InsertarUbicacion
    \/ UbicacionExistente
    \/ BuscarUbicacion
    \/ InsertarMedicion
    \/ MedicionDuplicada
    \/ InsertarCondicion
    \/ Commit
    \/ FallaSentencia
    \/ FallaCommit
    \/ Cerrar
    \/ OtraCarga

SpecCargar == InitCargar /\ [][NextCargar]_vars

-----------------------------------------------------------------------------
(* Claims about extraer, checked under SpecExtraer. *)

IsOk(r) == r.status = 200 /\ r.complete
IsErrorStatus(r) == r.status \in ErrorStatuses
Raised(r) == ~IsOk(r) /\ ~IsErrorStatus(r)

RowsOfCity(df, name) == Cardinality({k \in 1..Len(df) : df[k].city_name = name})

CompleteDocs(docs) == SelectSeq(docs, HasJsonPaths)

\* the JSON frame with every complete document of the file mapped, in order
MappedDocs(docs) ==
    SetColumn([k \in 1..Len(CompleteDocs(docs)) |-> MapJson(CompleteDocs(docs)[k])],
              "source_type", "JSON")

\* C5 (as claimed): when a document of the JSON file lacks a required path, only
\* that document is skipped; every complete document of the file, before or
\* after it, is in the extracted JSON frame.
C5_OnlyBadDocumentSkipped ==
    (pc = "extraido" /\ json_file.readable)
        => df_json = MappedDocs(json_file.docs)

\* every queried location answered: 200 with a well-formed body, or an error status
AllAnswered == \A k \in 1..Len(responses) : IsOk(responses[k]) \/ IsErrorStatus(responses[k])

\* one row for each city that answered 200, none for the others
OneRowPer200(df) ==
    /\ \A k \in 1..Len(Ciudades) :
          RowsOfCity(df, Ciudades[k].name) =
             IF k <= Len(responses) /\ IsOk(responses[k]) THEN 1 ELSE 0
    /\ Len(df) = Cardinality({k \in 1..Len(responses) : IsOk(responses[k])})

\* C6: when locations answer a non-success status and the others answer 200,
\* every location is queried, extraer ends with exactly one API row for each
\* location that answered 200 and none for the others (the rows tagged API);
\* one error status among the five leaves four rows.
C6_ErrorStatusSkipsOneLocation ==
    AllAnswered =>
        /\ pc = "api_loop" => OneRowPer200(api_records)
        /\ pc = "extraido" =>
              /\ Len(responses) = Len(Ciudades)
              /\ OneRowPer200(df_api)
              /\ \A k \in 1..Len(df_api) : df_api[k].source_type = "API"
              /\ Cardinality({k \in 1..Len(responses) : IsErrorStatus(responses[k])}) = 1
                    => Len(df_api) = 4

C6_Witness ==
    /\ pc = "extraido"
    /\ Len(responses) = Len(Ciudades)
    /\ responses[2].status = 404
    /\ \A k \in {1, 3, 4, 5} : IsOk(responses[k])
    /\ Len(df_api) = 4

\* C7 (as claimed): a failing call for one location (the request raising, or a
\* 200 body lacking a required field) does not halt the others: the rows of the
\* locations already fetched are kept and every later location is queried.
C7_FailingCallDoesNotHalt ==
    pc = "extraido" =>
        /\ Len(responses) = Len(Ciudades)
        /\ \A k \in 1..Len(responses) :
              IsOk(responses[k]) => RowsOfCity(df_api, Ciudades[k].name) = 1

\* C8: a source that fails (CSV unreadable, JSON unreadable, API extraction
\* raising) yields an empty frame; the sources after it are still attempted, in
\* the order CSV, JSON, API; and each other source's frame is what its own
\* input gives: the CSV rows tagged CSV, the mapped documents of a JSON file
\* whose documents are complete, one API row per location that answered 200.
C8_FailedSourceIsEmptyOthersUnaffected ==
    /\ pc \in {"json", "json_loop", "api", "api_loop", "extraido"} =>
          df_csv = IF csv_file.readable
                   THEN SetColumn(csv_file.rows, "source_type", "CSV") ELSE <<>>
    /\ pc \in {"api", "api_loop", "extraido"} =>
          /\ ~json_file.readable => df_json = <<>>
          /\ (json_file.readable
               /\ CompleteDocs(json_file.docs) = json_file.docs)
                => df_json = MappedDocs(json_file.docs)
    /\ pc = "extraido" =>
          /\ Len(responses) >= 1
          /\ Raised(responses[Len(responses)]) => df_api = <<>>
          /\ AllAnswered => (Len(responses) = Len(Ciudades) /\ OneRowPer200(df_api))

C8_Witness ==
    /\ pc = "extraido"
    /\ ~csv_file.readable
    /\ df_csv = <<>>
    /\ Len(df_json) = 2
    /\ Len(df_api) = Len(Ciudades)

\* the k-th CSV row and the j-th JSON document describe the same observation
MismaObservacion(k, j) ==
    /\ k \in 1..Len(csv_file.rows)
    /\ j \in 1..Len(json_file.docs)
    /\ json_file.docs[j] = DocOf(csv_file.rows[k])

\* C11 (as claimed): a CSV row and a JSON document that describe the same
\* observation are mapped by extraer to records that are equal in every field
\* except source_type (country name, state/province and ground-level pressure
\* included).
C11_SameObservationSameRecord ==
    (/\ pc = "extraido"
     /\ csv_file.readable
     /\ json_file.readable
     /\ CompleteDocs(json_file.docs) = json_file.docs)
        => \A k \in 1..Len(df_csv), j \in 1..Len(df_json) :
              MismaObservacion(k, j)
                 => SetField(df_json[j], "source_type", "CSV") = df_csv[k]

\* the optional paths of a response body behind five columns of the record
OptionalPathOf ==
    [sea_level_pressure_hpa |-> "main.sea_level",
     wind_gust_mps |-> "wind.gust",
     visibility_meters |-> "visibility",
     precipitation_mm |-> "rain.1h",
     snow_mm |-> "snow.1h"]

\* the value the claim gives a column whose path the body lacks
ValorPorDefecto(row, c) ==
    CASE c = "sea_level_pressure_hpa" -> row.pressure_hpa
      [] c = "wind_gust_mps" -> row.wind_speed_mps
      [] c = "visibility_meters" -> 10000
      [] c = "precipitation_mm" -> 0
      [] c = "snow_mm" -> 0

\* the rows of df for the k-th city carry, in each of the five columns, the
\* value of the body when the k-th response had the path, the default otherwise
OpcionalesDe(df, k) ==
    \A n \in 1..Len(df) :
        df[n].city_name = Ciudades[k].name =>
            \A c \in DOMAIN OptionalPathOf :
                df[n][c] = IF OptionalPathOf[c] \in responses[k].optional
                           THEN ApiBodyFull(k)[OptionalPathOf[c]]
                           ELSE ValorPorDefecto(df[n], c)

\* C14: for a response with status 200, wind gust, sea-level pressure,
\* visibility, precipitation and snow of the mapped record are the values of
\* the body when the body has them; when it lacks them, wind gust is the wind
\* speed, sea-level pressure is the surface pressure, visibility is 10000 and
\* precipitation and snow are 0.
C14_OptionalFieldsDefault ==
    \A k \in 1..Len(responses) :
        IsOk(responses[k]) =>
            /\ pc = "api_loop" =>
                  (RowsOfCity(api_records, Ciudades[k].name) = 1
                     /\ OpcionalesDe(api_records, k))
            /\ pc = "extraido" => OpcionalesDe(df_api, k)

\* the first city answered with every optional field, the second with none
C14_Witness ==
    /\ pc = "extraido"
    /\ Len(df_api) = Len(Ciudades)
    /\ responses[1].optional = ApiOptional
    /\ responses[2].optional = {}
    /\ df_api[1].wind_gust_mps # df_api[1].wind_speed_mps
    /\ df_api[1].visibility_meters = 8000
    /\ df_api[2].wind_gust_mps = df_api[2].wind_speed_mps
    /\ df_api[2].sea_level_pressure_hpa = df_api[2].pressure_hpa
    /\ df_api[2].visibility_meters = 10000
    /\ df_api[2].precipitation_mm = 0
    /\ df_api[2].snow_mm = 0

-----------------------------------------------------------------------------
(* Claims about transformar, checked under SpecTransformar. *)

\* the frames transformar combines, in the order of lines 235-240
Entrada == df_csv \o df_json \o df_api

\* transformar has filtered df_combined
Validado ==
    ~is_none /\ pc \in {"rellenar", "nombres", "traducir", "transformado"}

\* a row no step of the cleaning and validation may drop
EnRango(r) ==
    /\ r.city_name # NullStr
    /\ r.temperature_celsius # NaN
    /\ r.temperature_celsius >= -50 /\ r.temperature_celsius <= 60
    /\ r.humidity_percent # NaN
    /\ r.humidity_percent >= 0 /\ r.humidity_percent <= 100
    /\ r.wind_speed_mps # NaN
    /\ r.wind_speed_mps >= 0

\* C3: no row of the output of transformar has a temperature outside [-50, 60],
\* a humidity outside [0, 100] or a wind speed below 0, and the rows inside the
\* ranges, the limits -50, 60, 0 and 100 included, are all kept.
C3_OutOfRangeRowsAbsent ==
    Validado =>
        /\ \A k \in 1..Len(df_combined) :
              /\ df_combined[k].temperature_celsius \in -50..60
              /\ df_combined[k].humidity_percent \in 0..100
              /\ df_combined[k].wind_speed_mps # NaN
              /\ df_combined[k].wind_speed_mps >= 0
        /\ Len(df_combined) = Len(SelectSeq(Entrada, EnRango))

C3_Witness ==
    /\ pc = "transformado"
    /\ Len(df_csv) = 2
    /\ df_csv[1].temperature_celsius = 60
    /\ df_csv[2].temperature_celsius = 61
    /\ df_json = <<>> /\ df_api = <<>>
    /\ Len(df_combined) = 1
    /\ df_combined[1].temperature_celsius = 60

\* C4 (as claimed): no row of the output of transformar has a pressure outside
\* [900, 1100] hPa or a visibility outside [0, 50000] m.
C4_PressureVisibilityInRange ==
    (pc = "transformado" /\ ~is_none) =>
        \A k \in 1..Len(df_combined) :
            /\ Ge(df_combined[k].pressure_hpa, PressureMin)
            /\ Le(df_combined[k].pressure_hpa, PressureMax)
            /\ Ge(df_combined[k].visibility_meters, VisibilityMin)
            /\ Le(df_combined[k].visibility_meters, VisibilityMax)

-----------------------------------------------------------------------------
(* Claims about cargar, checked under SpecCargar. *)

\* C1 (as claimed): after cargar has processed a batch over an open connection,
\* inserted + duplicated + errored is the number of rows of the batch and every
\* row was counted in exactly one counter, whichever step failed (a statement
\* or the commit).
C1_CountersPartitionBatch ==
    pc = "cargado" =>
        /\ registros_insertados + registros_duplicados + errores = Len(df_combined)
        /\ \A k \in 1..Len(df_combined) : tally[k] = 1

\* C2: when every row of the batch loaded without a failure, a second cargar
\* on the same batch that meets no failure either leaves the three tables with
\* the row counts they had after the first, inserts nothing and counts every
\* row as a duplicate.
C2_SecondLoadAllDuplicates ==
    (pc = "cargado" /\ clean /\ prev.done /\ prev.clean) =>
        /\ Tamanos(db) = prev.counts
        /\ registros_insertados = 0
        /\ registros_duplicados = Len(df_combined)
        /\ errores = 0

C2_Witness ==
    /\ pc = "cargado"
    /\ clean /\ prev.done /\ prev.clean
    /\ run = 2
    /\ Len(df_combined) = 2
    /\ prev.counts = <<2, 2, 2>>
    /\ registros_duplicados = 2

\* C9: when a statement of a row's sequence (or its commit) fails, the store
\* is left as it was when that row started, both as committed and as the
\* connection sees it, errores grows by one, the loader moves to the next row,
\* and a load that reaches its summary has attempted every row of the batch.
C9_FailedRowRolledBackLoadGoesOn ==
    [][/\ (FallaSentencia \/ FallaCommit) =>
            /\ tx' = rec_begin
            /\ db' = rec_begin
            /\ errores' = errores + 1
            /\ registros_insertados' + registros_duplicados'
                  = registros_insertados + registros_duplicados
            /\ i' = i + 1
            /\ pc' = IF i < Len(df_combined) THEN "ubicacion" ELSE "cerrar"
       /\ pc' = "cargado" =>
            /\ i' = Len(df_combined) + 1
            /\ \A k \in 1..Len(df_combined) : tally'[k] >= 1]_vars

\* a location row was written for the first row, a later statement failed, and
\* the second row is about to start on an empty store
C9_Witness ==
    /\ pc = "ubicacion"
    /\ run = 1
    /\ i = 2
    /\ errores = 1
    /\ id_ubicacion = 1
    /\ tx = EmptyStore
    /\ db = EmptyStore

ClavesUnicas(store) ==
    /\ \A u, v \in store.ubicaciones :
          ClaveUbicacion(u) = ClaveUbicacion(v) => u = v
    /\ \A m, n \in store.mediciones :
          ClaveMedicion(m) = ClaveMedicion(n) => m = n

MismaUbicacion(r, q) ==
    /\ r.city_name = q.city_name
    /\ r.country_code = q.country_code
    /\ r.latitude = q.latitude
    /\ r.longitude = q.longitude

\* C10: in every store state that cargar reaches from an empty store, no two
\* location rows share (city, country, latitude, longitude) and no two
\* measurement rows share (location id, timestamp, source type); two rows of
\* one place at different times, loaded without failure, leave one location row
\* and two measurement rows that carry that location's id.
C10_NaturalKeysUnique ==
    /\ ClavesUnicas(tx)
    /\ ClavesUnicas(db)
    /\ (/\ pc = "cargado"
        /\ run = 1
        /\ clean
        /\ Len(df_combined) = 2
        /\ MismaUbicacion(df_combined[1], df_combined[2])
        /\ df_combined[1].measurement_datetime # df_combined[2].measurement_datetime)
          => /\ Cardinality(db.ubicaciones) = 1
             /\ Cardinality(db.mediciones) = 2
             /\ \A m \in db.mediciones : \A u \in db.ubicaciones :
                   m.id_ubicacion = u.id_ubicacion

C10_Witness ==
    /\ pc = "cargado"
    /\ run = 1
    /\ clean
    /\ Len(df_combined) = 2
    /\ MismaUbicacion(df_combined[1], df_combined[2])
    /\ df_combined[1].measurement_datetime # df_combined[2].measurement_datetime
    /\ Cardinality(db.ubicaciones) = 1
    /\ Cardinality(db.mediciones) = 2

\* C12: when the connection cannot be opened, cargar ends in its outer handler
\* (the failure stays inside cargar) with no insert executed, no row persisted,
\* no record processed or counted and the batch df_combined unchanged; and
\* while no connection is open, no step of cargar changes the store.
C12_NoConnectionNoLoad ==
    [][/\ (pc = "cargar" /\ ~conn_open' /\ pc' # "sin_datos") =>
            /\ pc' = "fatal"
            /\ tx' = tx
            /\ db' = db
            /\ df_combined' = df_combined
            /\ contadores' = <<0, 0, 0>>
            /\ \A k \in 1..Len(df_combined) : tally'[k] = 0
       /\ (~conn_open /\ ~conn_open') =>
            /\ tx' = tx
            /\ db' = db
            /\ df_combined' = df_combined]_vars

\* the connection fails on the second run, over a store the first run filled
C12_Witness ==
    /\ pc = "fatal"
    /\ run = 2
    /\ ~conn_open
    /\ prev.done
    /\ Len(df_combined) = 2
    /\ Tamanos(db) = prev.counts
    /\ Cardinality(db.mediciones) = 2
    /\ contadores = <<0, 0, 0>>

\* C13 (as claimed): city-name normalization (trim, then title case) is
\* idempotent: normalizing a normalized name returns the same string, so the
\* normalization applied to a transformed batch changes no city_name.
C13_NormalizationIdempotent ==
    (~is_none /\ pc \in {"traducir", "transformado"})
        => \A k \in 1..Len(df_combined) :
              NormalizarCiudad(df_combined[k].city_name) = df_combined[k].city_name

\* C15: the condition insert of a record is reached only from that record's
\* measurement insert having returned the id of a new row, and a condition row
\* is only written by it, under that id; when the measurement insert meets a
\* row with the same (location id, timestamp, source type), duplicates grows
\* by one, inserted does not, the condition insert is skipped, and the store
\* is as it was when the record started, in all three tables.
C15_ConditionOnlyAfterNewMeasurement ==
    [][/\ pc' = "condicion" =>
            /\ pc = "medicion"
            /\ MedicionesEnConflicto(tx, df_combined[i], id_ubicacion) = {}
            /\ id_medicion' \in IdsMedicion(tx') \ IdsMedicion(tx)
       /\ tx'.condiciones \ tx.condiciones # {} =>
            /\ pc = "condicion"
            /\ \A c \in tx'.condiciones \ tx.condiciones :
                  c.id_medicion = id_medicion
       /\ (/\ pc = "medicion"
           /\ MedicionesEnConflicto(tx, df_combined[i], id_ubicacion) # {}
           /\ pc' \in {"commit", "condicion"}) =>
            /\ pc' = "commit"
            /\ registros_duplicados' = registros_duplicados + 1
            /\ registros_insertados' = registros_insertados
            /\ tx' = tx
            /\ db' = db
            /\ tx = rec_begin
            /\ db = rec_begin]_vars

\* the second row of a batch repeats the first and is found duplicate
C15_Witness ==
    /\ pc = "commit"
    /\ run = 1
    /\ i = 2
    /\ df_combined[1] = df_combined[2]
    /\ registros_insertados = 1
    /\ registros_duplicados = 1
    /\ tx = db
    /\ Tamanos(db) = <<1, 1, 1>>

\* each measurement row has exactly one condition row, each condition row has
\* its measurement row, each measurement row has its location row
UnoAUno(store) ==
    /\ \A m \in store.mediciones :
          Cardinality({c \in store.condiciones : c.id_medicion = m.id_medicion}) = 1
    /\ \A c \in store.condiciones :
          \E m \in store.mediciones : m.id_medicion = c.id_medicion
    /\ \A m \in store.mediciones :
          \E u \in store.ubicaciones : u.id_ubicacion = m.id_ubicacion

\* C16: in every committed state of the store that cargar reaches from an
\* empty store, measurements and conditions are one to one (each measurement
\* row has exactly one condition row with its id, each condition row refers
\* to a measurement row that exists) and each measurement row refers to a
\* location row that exists.
C16_MeasurementsConditionsOneToOne ==
    UnoAUno(db)

\* a first load lost a row to a failure, the second load inserted it
C16_Witness ==
    /\ pc = "cargado"
    /\ run = 2
    /\ prev.done /\ ~prev.clean
    /\ prev.counts = <<1, 1, 1>>
    /\ Cardinality(db.mediciones) = 2
    /\ Cardinality(db.condiciones) = 2
    /\ UnoAUno(db)

-----------------------------------------------------------------------------
(* Further claims about transformar, checked under SpecTransformar. *)

\* C17 (as claimed): each rule's rejection count is the number of rows its
\* filter removes, so that for every input batch, records with a missing
\* humidity or wind speed included, the combined size is the rows dropped for
\* a missing temperature or city, plus the temperature, humidity and wind
\* counts, plus the rows kept; and a single record with temperature 95 gives a
\* temperature count of 1 and an empty output.
C17_CountsAccountForEveryRow ==
    Validado =>
        /\ Len(Entrada) = rechazos.nulos + rechazos.temp + rechazos.hum
                              + rechazos.wind + Len(df_combined)
        /\ (Len(Entrada) = 1 /\ Entrada[1].temperature_celsius = 95) =>
              (rechazos.temp = 1 /\ df_combined = <<>>)

\* the columns transformar rewrites: fillna (lines 300-304), names (309-310),
\* translation (388-389)
Reescritas ==
    {"precipitation_mm", "snow_mm", "uv_index", "weather_alert",
     "air_quality_index", "city_name", "country_code", "condition_main",
     "condition_description"}

\* a record without the columns transformar rewrites: temperature, humidity,
\* wind speed, pressure and visibility are among those left
Intacto(r) == [c \in DOMAIN r \ Reescritas |-> r[c]]

Intactos(df) == [k \in 1..Len(df) |-> Intacto(df[k])]

\* a is b without some of its elements, the others in b's order
RECURSIVE EsSubsecuencia(_, _)
EsSubsecuencia(a, b) ==
    IF a = <<>> THEN TRUE
    ELSE IF b = <<>> THEN FALSE
    ELSE IF Head(a) = Head(b) THEN EsSubsecuencia(Tail(a), Tail(b))
    ELSE EsSubsecuencia(a, Tail(b))

\* C18: transformar never corrects a value into range: at every step its
\* frame is a sub-collection of the combined input, in the input's order, and
\* each kept record carries the temperature, humidity, wind speed, pressure
\* and visibility (and every other column transformar does not rewrite) it
\* had on input.
C18_KeptRecordsKeepTheirValues ==
    ~is_none =>
        /\ {"temperature_celsius", "humidity_percent", "wind_speed_mps",
            "pressure_hpa", "visibility_meters"} \cap Reescritas = {}
        /\ EsSubsecuencia(Intactos(df_combined), Intactos(Entrada))

\* the first row is dropped for its temperature; the second, with a pressure
\* of 899, is kept as it is, ahead of the JSON row
C18_Witness ==
    /\ pc = "transformado"
    /\ ~is_none
    /\ Len(df_csv) = 2
    /\ df_csv[1].temperature_celsius = 61
    /\ df_csv[2].pressure_hpa = 899
    /\ Len(df_json) = 1
    /\ df_api = <<>>
    /\ Len(df_combined) = 2
    /\ df_combined[1].pressure_hpa = 899
    /\ df_combined[1].temperature_celsius = df_csv[2].temperature_celsius
    /\ df_combined[2].source_type = "JSON"

====
